---- MODULE Spec2Model ----
(***************************************************************************)
(* A model of liteorm's collection.ts: the condition compiler              *)
(* (_parseCond / _parseCondBasic), the type transform registry of the      *)
(* Collection constructor, and the Collection operations (init, create,    *)
(* find, get, update, delete) with their Emittery hooks.                   *)
(*                                                                         *)
(* Strings the code builds by concatenation are sequences of tokens; a     *)
(* JavaScript value is a record [kind, s, items, ops]; a JavaScript object *)
(* used as a map ($params) is a function from its keys.                    *)
(***************************************************************************)
EXTENDS Integers, Sequences, FiniteSets, TLC

VARIABLES
    pc,         \* position of the call in progress
    cond,       \* the filter handed to _parseCond
    cols,       \* the collections taking part (one for find/update/delete, all joined ones for Chain.data)
    sql,        \* the ISql the compiler returned
    thrown,     \* the error the call ended with, "none" when it returned
    propType,   \* the extended type (prop.type) whose transform is applied
    data,       \* the logical value handed to transform[propType].set
    repr,       \* the native representation set returned
    loaded,     \* the logical value transform[propType].get returned for repr
    col,        \* the Collection the operations are called on
    listeners,  \* its Emittery listeners: those of 'pre-create' and of 'pre-update', in the order added
    call,       \* the operation called last: its name and its `build` argument
    entry,      \* create's entry / update's set, as Object.entries gives it
    started,    \* how many listeners the emit in progress has called
    running,    \* the listeners called that are waiting at their await
    calls,      \* the default / onUpdate functions invoked by the call, with the keys each saw
    issued,     \* the statements the call handed to the engine (sql.exec, sql.run, sql.all)
    objects,    \* the engine's schema objects (tables and indexes), in creation order
    inits,      \* how many times init was called
    chain,      \* the Chain under construction: its cols, select and from
    rows,       \* the rows the engine returned to the call
    result      \* what the call returned

cvars == <<cond, cols, sql, thrown>>
tvars == <<propType, data, repr, loaded>>
ovars == <<col, listeners, call, entry, started, running, calls, issued, objects, inits, chain,
           rows, result>>
vars == <<pc, cvars, tvars, ovars>>

(***************************************************************************)
(* Bounds                                                                  *)
(***************************************************************************)
MaxLen == 3
MaxDepth == 2
MaxInits == 2
MaxJoins == 1

(***************************************************************************)
(* JavaScript values                                                       *)
(***************************************************************************)
Sc(lit) == [kind |-> "scalar", s |-> lit, items |-> <<>>, ops |-> <<>>]
Str(chars) == [kind |-> "string", s |-> "", items |-> chars, ops |-> <<>>]
Dt(ms) == [kind |-> "date", s |-> ms, items |-> <<>>, ops |-> <<>>]
Arr(items) == [kind |-> "array", s |-> "", items |-> items, ops |-> <<>>]
Obj(ops) == [kind |-> "object", s |-> "", items |-> <<>>, ops |-> ops]
Op(op, arg) == [op |-> op, arg |-> arg]

Undefined == Sc("undefined")
Null == Sc("null")

FalsyLits == {"undefined", "null", "0", "false", "''"}

\* if (v): every object (array, plain object, Date) is truthy, a scalar unless it is
\* undefined, null, 0, false or ''.
\* (Sc holds a scalar by its literal, Str a string by its characters.)
TruthyUnlessEmpty(v) ==
    CASE v.kind = "scalar" -> v.s \notin FalsyLits
      [] v.kind \in {"string", "array"} -> v.items # <<>>
      [] OTHER -> TRUE
Truthy(v) ==
    CASE v.kind = "scalar" -> v.s \notin FalsyLits
      [] v.kind = "string" -> v.items # <<>>
      [] OTHER -> TRUE

\* typeof v === 'object' of a truthy v
IsObjectType(v) == v.kind \in {"array", "object", "date"}

\* +v of a Date: its epoch milliseconds, a number
DateToNumber(v) == Sc(v.s)

\* JSON.stringify(v): a string, never empty, holding the serialized value
JSONstringify(v) ==
    [kind |-> "json",
     s |-> IF v.kind = "array" THEN "[]" ELSE IF v.kind = "object" THEN "{}" ELSE v.s,
     items |-> v.items, ops |-> v.ops]

\* JSON.parse(text)
JSONparse(text) ==
    IF text.s = "[]" THEN Arr(text.items)
    ELSE IF text.s = "{}" THEN Obj(text.ops)
    ELSE Sc(text.s)

(***************************************************************************)
(* utils.ts                                                                *)
(***************************************************************************)
ReservedWords == {"order", "group", "index"}

\* safeColumnName: double-quotes an identifier that is a reserved word
safeColumnName(name) == IF name \in ReservedWords THEN "\"" \o name \o "\"" ELSE name

\* `$${safeId()}`: the n-th token minted, never one minted before
safeId(n) == "$" \o ToString(n)

(***************************************************************************)
(* Schemas                                                                 *)
(***************************************************************************)
\* A column as the decorators describe it: default is "none", "literal" or
\* "function"; onUpdate is "none", "value" or "function".
Prop(k, type, default, index, onUpdate) ==
    [k |-> k, type |-> type, default |-> default, index |-> index, onUpdate |-> onUpdate]

Primary(name, type, default) == [name |-> name, type |-> type, default |-> default]

\* The __meta.prop of the constructor: the declared props, then createdAt and
\* updatedAt (an undefined entry is left out: every reader tests `v &&`).
MetaProp(prop, createdAt, updatedAt) ==
    prop
    \o (IF createdAt
        THEN <<Prop("createdAt", "Date", "function", FALSE, "none")>> ELSE <<>>)
    \o (IF updatedAt
        THEN <<Prop("updatedAt", "Date", "function", FALSE, "function")>> ELSE <<>>)

\* new Collection(model): its name and its __meta
Collection(name, primary, prop, createdAt, updatedAt) ==
    [name |-> name, primary |-> primary, prop |-> MetaProp(prop, createdAt, updatedAt)]

Post ==
    Collection("post", Primary("_id", "string", "function"),
               <<Prop("title", "string", "none", FALSE, "none"),
                 Prop("tags", "StringArray", "none", TRUE, "none"),
                 Prop("order", "StringArray", "none", FALSE, "none"),
                 Prop("meta", "JSON", "none", FALSE, "none")>>,
               TRUE, FALSE)

User ==
    Collection("user", Primary("_id", "int", "none"),
               <<Prop("email", "string", "none", TRUE, "none"),
                 Prop("labels", "StringArray", "none", FALSE, "none")>>,
               FALSE, FALSE)

ColSets == {<<Post>>, <<Post, User>>}

SeqRange(s) == {s[i] : i \in 1..Len(s)}

\* strArrayCols of _parseCondBasic
strArrayCols(cs) ==
    UNION {
        LET strArrayFields == {p.k : p \in {x \in SeqRange(c.prop) : x.type = "StringArray"}}
        IN  {safeColumnName(f) : f \in strArrayFields}
            \cup {c.name \o "__" \o f : f \in strArrayFields}
        : c \in SeqRange(cs)}

(***************************************************************************)
(* String and object helpers                                               *)
(***************************************************************************)
\* Array.prototype.join on token sequences
RECURSIVE Join(_, _)
Join(parts, sep) ==
    IF parts = <<>> THEN <<>>
    ELSE IF Len(parts) = 1 THEN parts[1]
    ELSE parts[1] \o <<sep>> \o Join(Tail(parts), sep)

\* `x || 'TRUE'` of a statement string
OrTrue(statement) == IF statement = <<>> THEN <<"TRUE">> ELSE statement

NoParams == [x \in {} |-> Undefined]

\* Object.assign(target, src): an entry of src replaces target's entry of that name
MergeParamsLost(target, src) == src
MergeParams(target, src) == src @@ target

\* { [`$${safeId()}`]: c } for each element c, minting one token per element
BindEach(items, n) ==
    [x \in {safeId(n + i) : i \in 1..Len(items)} |->
        items[CHOOSE i \in 1..Len(items) : safeId(n + i) = x]]

\* k LIKE '%\x1f'||id||'\x1f%'
LikeMember(k, id) == <<k, "LIKE", "'%\\x1f'", "||", id, "||", "'\\x1f%'">>

(***************************************************************************)
(* __meta.transform                                                        *)
(***************************************************************************)
NumberLits == {"0", "1", "5", "7"}
IsNumber(v) == v.kind = "scalar" /\ v.s \in NumberLits
IsBoolean(v) == v.kind = "scalar" /\ v.s \in {"true", "false"}

Separator == "\\x1f"

\* String.prototype.split on a string that is not empty
RECURSIVE Split(_, _)
Split(chars, sep) ==
    LET at == {i \in 1..Len(chars) : chars[i] = sep}
    IN  IF at = {} THEN <<Str(chars)>>
        ELSE LET i == CHOOSE j \in at : \A l \in at : j <= l
             IN  <<Str(SubSeq(chars, 1, i - 1))>> \o Split(SubSeq(chars, i + 1, Len(chars)), sep)

\* d.join('\x1f') of an array of strings
JoinChars(items, sep) == Join([i \in 1..Len(items) |-> items[i].items], sep)

\* transform.Date
DateGet(r) == IF IsNumber(r) THEN Dt(r.s) ELSE Null
DateSet(d) ==
    IF Truthy(d)
    THEN IF d.kind = "date" THEN DateToNumber(d)
         ELSE IF IsNumber(d) THEN d ELSE Sc("NaN")
    ELSE Null

\* transform.JSON
JSONGet(r) == IF Truthy(r) THEN JSONparse(r) ELSE Null
JSONSet(d) == IF Truthy(d) THEN JSONstringify(d) ELSE Null

\* transform.StringArray
StringArrayGet(r) ==
    LET inner == IF Truthy(r) THEN Str(SubSeq(r.items, 2, Len(r.items) - 1)) ELSE Str(<<>>)
    IN  IF Truthy(inner) THEN Arr(Split(inner.items, Separator)) ELSE Null
StringArraySet(d) ==
    IF Truthy(d) THEN Str(<<Separator>> \o JoinChars(d.items, Separator) \o <<Separator>>)
    ELSE Null

\* transform.Boolean
BooleanGet(r) == IF IsNumber(r) THEN Sc(IF r.s # "0" THEN "true" ELSE "false") ELSE Null
BooleanSet(d) == IF IsBoolean(d) THEN Sc(IF d.s = "true" THEN "1" ELSE "0") ELSE Null

TransformTypes == {"Date", "JSON", "StringArray", "Boolean"}

TransformSet(t, d) ==
    CASE t = "Date" -> DateSet(d)
      [] t = "JSON" -> JSONSet(d)
      [] t = "StringArray" -> StringArraySet(d)
      [] t = "Boolean" -> BooleanSet(d)

TransformGet(t, r) ==
    CASE t = "Date" -> DateGet(r)
      [] t = "JSON" -> JSONGet(r)
      [] t = "StringArray" -> StringArrayGet(r)
      [] t = "Boolean" -> BooleanGet(r)

(***************************************************************************)
(* _parseCondBasic                                                         *)
(***************************************************************************)
\* A step of the loop over Object.entries(cond) yields the clauses pushed to cList,
\* the entries assigned to $params and the number of tokens minted so far.
Pushed(clauses, params, n) == [c |-> clauses, p |-> params, n |-> n]

\* doDefault(k, v, id), called with n tokens minted
doDefaultEq(k, v, id, n, strCols) == Pushed(<< <<k, "=", id>> >>, id :> v, n)
doDefault(k, v, id, n, strCols) ==
    IF k \in strCols
    THEN Pushed(<<LikeMember(k, id)>>, id :> v, n)
    ELSE Pushed(<< <<k, "=", id>> >>, id :> v, n)

\* v.map((v0) => ...).join(sep) in parentheses: one substring match per element
LikeEach(k, items, n, sep) ==
    Pushed(<< <<"(">>
              \o Join([i \in 1..Len(items) |-> LikeMember(k, safeId(n + i))], sep)
              \o <<")">> >>,
           BindEach(items, n), n + Len(items))

\* v.reduce(...) into vObj, then `k IN (ids)` (or NOT IN)
InListShared(k, items, n, word) ==
    Pushed(<< <<k, word, "(", safeId(n + 1), ")">> >>,
           safeId(n + 1) :> items[Len(items)], n + 1)
InList(k, items, n, word) ==
    Pushed(<< <<k, word, "(">>
              \o Join([i \in 1..Len(items) |-> <<safeId(n + i)>>], ",")
              \o <<")">> >>,
           BindEach(items, n), n + Len(items))

\* a fresh id compared with v[0]
FirstItem(k, items, n, cmp) ==
    Pushed(<< <<k, cmp, safeId(n + 1)>> >>,
           safeId(n + 1) :> (IF items = <<>> THEN Undefined ELSE items[1]), n + 1)

\* the bare-array branch
ArrayValue(k, items, n, isStrArray) ==
    IF isStrArray THEN LikeEach(k, items, n, "AND")
    ELSE IF Len(items) > 1 THEN InList(k, items, n, "IN")
    ELSE IF Len(items) = 1 THEN FirstItem(k, items, n, "=")
    ELSE Pushed(<<>>, NoParams, n)

\* case '$in' / case '$nin' of an array operand
InOperand(k, items, n, isStrArray) ==
    IF isStrArray THEN LikeEach(k, items, n, "OR")
    ELSE IF Len(items) > 1 THEN InList(k, items, n, "IN")
    ELSE IF Len(items) = 1 THEN FirstItem(k, items, n, "=")
    ELSE Pushed(<<>>, NoParams, n)

NinOperand(k, items, n) ==
    IF Len(items) > 1 THEN InList(k, items, n, "NOT IN")
    ELSE FirstItem(k, items, n, "!=")

\* the switch (op) over the operators that are not $in / $nin of an array
BindingOps == {"$like", "$nlike", "$substr", "$nsubstr", "$gt", "$gte", "$lt", "$lte", "$ne"}

OpClause(op, k, id) ==
    CASE op = "$like" -> <<k, "LIKE", id>>
      [] op = "$nlike" -> <<k, "NOT LIKE", id>>
      [] op = "$substr" -> <<k, "LIKE", "'%'", "||", id, "||", "'%'">>
      [] op = "$nsubstr" -> <<k, "NOT LIKE", "'%'", "||", id, "||", "'%'">>
      [] op = "$gt" -> <<k, ">", id>>
      [] op = "$gte" -> <<k, ">=", id>>
      [] op = "$lt" -> <<k, "<", id>>
      [] op = "$lte" -> <<k, "<=", id>>
      [] op = "$ne" -> <<k, "!=", id>>

\* json_extract(k, '$.$milli')
MilliOf(k) == "json_extract(" \o k \o ", '$.$milli')"

\* if (v1 && typeof v1 === 'object'): the column and the operand the switch then uses
SwitchOperand(k, v1) ==
    IF Truthy(v1) /\ IsObjectType(v1)
    THEN IF v1.kind = "date"
         THEN [k |-> MilliOf(k), v1 |-> DateToNumber(v1)]
         ELSE [k |-> k, v1 |-> JSONstringify(v1)]
    ELSE [k |-> k, v1 |-> v1]

\* the branch of a plain object v: op = Object.keys(v)[0], v1 = v[op]
ObjectValue(k, v, id, n, isStrArray, strCols) ==
    LET op == IF v.ops = <<>> THEN "undefined" ELSE v.ops[1].op
        v0 == IF v.ops = <<>> THEN Undefined ELSE v.ops[1].arg
        v1 == IF v0.kind = "date" THEN DateToNumber(v0) ELSE v0
        sw == SwitchOperand(k, v1)
    IN  IF v1.kind = "array" /\ op = "$in" THEN InOperand(k, v1.items, n, isStrArray)
        ELSE IF v1.kind = "array" /\ op = "$nin" THEN NinOperand(k, v1.items, n)
        ELSE IF op \in BindingOps THEN Pushed(<<OpClause(op, sw.k, id)>>, id :> sw.v1, n)
        ELSE IF op = "$exists"
             THEN Pushed(<< <<sw.k, "IS", IF Truthy(sw.v1) THEN "NOT NULL" ELSE "NULL">> >>,
                         NoParams, n)
        ELSE doDefault(sw.k, v, id, n, strCols)

\* k of the loop: a dotted key becomes a json_extract, any other goes through safeColumnName
ColumnRef(key) ==
    IF Len(key) > 1
    THEN "json_extract(" \o safeColumnName(key[1]) \o ", '$."
         \o safeColumnName(Join([i \in 1..(Len(key) - 1) |-> key[i + 1]], ".")) \o "')"
    ELSE safeColumnName(key[1])

\* One iteration of `for (let [k, v] of Object.entries(cond))`, n tokens minted before it
FieldClause(key, value, n, strCols) ==
    LET k == ColumnRef(key)
        isStrArray == k \in strCols
        v == IF value.kind = "date" THEN DateToNumber(value) ELSE value
        id == safeId(n + 1)
    IN  IF Truthy(v)
        THEN IF v.kind = "array" THEN ArrayValue(k, v.items, n + 1, isStrArray)
             ELSE IF v.kind = "object" THEN ObjectValue(k, v, id, n + 1, isStrArray, strCols)
             ELSE doDefault(k, v, id, n + 1, strCols)
        ELSE doDefault(k, v, id, n + 1, strCols)

\* the loop: cList, $params and the tokens minted after the first i fields
RECURSIVE FieldLoop(_, _, _, _)
FieldLoop(fields, i, n, strCols) ==
    IF i = 0 THEN Pushed(<<>>, NoParams, n)
    ELSE LET before == FieldLoop(fields, i - 1, n, strCols)
             this == FieldClause(fields[i].k, fields[i].v, before.n, strCols)
         IN  Pushed(before.c \o this.c, MergeParams(before.p, this.p), this.n)

ISql(statement, params, n) == [statement |-> statement, params |-> params, n |-> n]

_parseCondBasic(q, cs, n) ==
    IF q.statement # <<>> THEN ISql(q.statement, q.params, n)
    ELSE LET r == FieldLoop(q.fields, Len(q.fields), n, strArrayCols(cs))
         IN  ISql(OrTrue(Join(r.c, "AND")), r.p, r.n)

(***************************************************************************)
(* _parseCond                                                              *)
(***************************************************************************)
RECURSIVE _parseCond(_, _, _)
RECURSIVE MapParse(_, _, _, _)

\* q.$or.map / q.$and.map: each element compiled in turn, its $params assigned
\* into the caller's
MapParse(subs, i, cs, n) ==
    IF i = 0 THEN [statements |-> <<>>, params |-> NoParams, n |-> n]
    ELSE LET before == MapParse(subs, i - 1, cs, n)
             r == _parseCond(subs[i], cs, before.n)
         IN  [statements |-> Append(before.statements, r.statement),
              params |-> MergeParams(before.params, r.params),
              n |-> r.n]

Group(c) == <<"(">> \o c \o <<")">>

_parseCond(q, cs, n) ==
    IF q.statement # <<>> THEN ISql(q.statement, q.params, n)
    ELSE IF q.hasOr
         THEN LET m == MapParse(q.orSubs, Len(q.orSubs), cs, n)
              IN  ISql(OrTrue(Group(Join(m.statements, "OR"))), m.params, m.n)
    ELSE IF q.hasAnd
         THEN LET m == MapParse(q.andSubs, Len(q.andSubs), cs, n)
              IN  ISql(OrTrue(Group(Join(m.statements, "AND"))), m.params, m.n)
    ELSE LET r == _parseCondBasic(q, cs, n)
         IN  ISql(OrTrue(Group(r.statement)), MergeParams(NoParams, r.params), r.n)

(***************************************************************************)
(* Filters                                                                 *)
(***************************************************************************)
Field(key, value) == [k |-> key, v |-> value]

\* A filter object: its $statement / $params when it is raw SQL, its $or and $and
\* arrays when it has them, and its other entries in Object.entries order.
Filter(statement, params, hasOr, orSubs, hasAnd, andSubs, fields) ==
    [statement |-> statement, params |-> params, hasOr |-> hasOr, orSubs |-> orSubs,
     hasAnd |-> hasAnd, andSubs |-> andSubs, fields |-> fields]

Fields(fields) == Filter(<<>>, NoParams, FALSE, <<>>, FALSE, <<>>, fields)
RawSql(statement, params) == Filter(statement, params, FALSE, <<>>, FALSE, <<>>, <<>>)
OrOf(subs) == Filter(<<>>, NoParams, TRUE, subs, FALSE, <<>>, <<>>)
AndOf(subs) == Filter(<<>>, NoParams, FALSE, <<>>, TRUE, subs, <<>>)

Keys == {<<"title">>, <<"tags">>, <<"order">>, <<"labels">>, <<"user__labels">>, <<"meta", "a">>}

ScalarValues == {Sc(l) : l \in FalsyLits \cup {"5", "true", "'x'"}}
DateValues == {Dt("0"), Dt("7")}
Elements == {Sc("5"), Sc("'x'")}
ArrayValues == {Arr(items) : items \in UNION {[1..len -> Elements] : len \in 0..MaxLen}}

Operators ==
    BindingOps \cup {"$in", "$nin", "$exists", "$foo"}
Operands ==
    {Sc("5"), Sc("0"), Sc("'x'"), Dt("7"), Dt("0"),
     Arr(<<>>), Arr(<<Sc("5")>>), Arr(<<Sc("5"), Sc("'x'")>>), Obj(<<Op("a", Sc("5"))>>)}
ObjectValues ==
    {Obj(<<Op(op, arg)>>) : op \in Operators, arg \in Operands}
    \cup {Obj(<<>>),
          Obj(<<Op("$gt", Sc("5")), Op("$lt", Sc("'x'"))>>),
          Obj(<<Op("$foo", Sc("5")), Op("$gt", Sc("5"))>>)}

Values == ScalarValues \cup DateValues \cup ArrayValues \cup ObjectValues

\* { k: v }
OneField == {Fields(<<Field(key, value)>>) : key \in Keys, value \in Values}

\* The sub-filters groups are built from: field filters and raw SQL, two of which
\* name their parameter alike.
Leaves ==
    {Fields(<<>>),
     Fields(<<Field(<<"title">>, Sc("'x'"))>>),
     Fields(<<Field(<<"tags">>, Sc("'x'")), Field(<<"title">>, Arr(<<Sc("5"), Sc("'x'")>>))>>),
     Fields(<<Field(<<"order">>, Obj(<<Op("$exists", Sc("true"))>>))>>),
     RawSql(<<"title", "=", ":a">>, ":a" :> Sc("5")),
     RawSql(<<"title", "!=", ":b">>, ":b" :> Sc("'x'"))}
Siblings ==
    {Fields(<<Field(<<"title">>, Sc("0"))>>),
     RawSql(<<"rowid", ">", ":a">>, ":a" :> Sc("0"))}

\* $or / $and groups nested to a depth
RECURSIVE Groups(_)
Groups(depth) ==
    IF depth = 0 THEN Leaves
    ELSE LET inner == Groups(depth - 1)
             subs == {<<>>} \cup {<<a>> : a \in inner}
                     \cup {<<a, b>> : a \in inner, b \in Siblings}
                     \cup {<<b, a>> : a \in inner, b \in Siblings}
         IN  inner \cup {OrOf(s) : s \in subs} \cup {AndOf(s) : s \in subs}

\* filters that carry $or or $and beside other keys, or both $or and $and
Mixed ==
    LET byTags == Fields(<<Field(<<"tags">>, Sc("'x'"))>>)
        byOrder == Fields(<<Field(<<"order">>, Obj(<<Op("$exists", Sc("true"))>>))>>)
        byTitle == <<Field(<<"title">>, Sc("5"))>>
    IN  {Filter(<<>>, NoParams, TRUE, <<byTags>>, FALSE, <<>>, byTitle),
         Filter(<<>>, NoParams, FALSE, <<>>, TRUE, <<byTags, byOrder>>, byTitle),
         Filter(<<>>, NoParams, TRUE, <<byTags>>, TRUE, <<byOrder>>, <<>>),
         Filter(<<>>, NoParams, TRUE, <<byTags>>, TRUE, <<byOrder>>, byTitle)}

Filters == OneField \cup Groups(MaxDepth) \cup Mixed

NoSql == ISql(<<>>, NoParams, 0)

(***************************************************************************)
(* A collection as its constructor leaves it                               *)
(***************************************************************************)
\* this.on('pre-update', ...) for every prop with an onUpdate, in Object.entries order
ConstructorListeners(c) ==
    SelectSeq([i \in 1..Len(c.prop) |->
                   [event |-> "pre-update", k |-> c.prop[i].k, fn |-> c.prop[i].onUpdate]],
              LAMBDA l : l.fn # "none")

NoChain == [cols |-> <<>>, select |-> <<>>, from |-> <<>>]
NoCall == [name |-> "none", build |-> FALSE, postfix |-> <<>>]

IdleCollection(c) ==
    /\ col = c
    /\ listeners = ConstructorListeners(c)
    /\ call = NoCall
    /\ entry = <<>>
    /\ started = 0
    /\ running = {}
    /\ calls = <<>>
    /\ issued = <<>>
    /\ objects = <<>>
    /\ inits = 0
    /\ chain = NoChain
    /\ rows = <<>>
    /\ result = <<>>

(***************************************************************************)
(* The condition compiler applied to a filter                              *)
(***************************************************************************)
InitCond ==
    /\ pc = "ready"
    /\ cond \in Filters
    /\ cols \in ColSets
    /\ sql = NoSql
    /\ thrown = "none"
    /\ propType = "none" /\ data = Undefined /\ repr = Undefined /\ loaded = Undefined
    /\ IdleCollection(Post)

\* where = _parseCond(cond, cols): neither function has a throw statement
ParseCond ==
    /\ pc = "ready"
    /\ sql' = _parseCond(cond, cols, 0)
    /\ pc' = "done"
    /\ UNCHANGED <<cond, cols, thrown, tvars, ovars>>

NextCond == ParseCond

SpecCond == InitCond /\ [][NextCond]_vars

(***************************************************************************)
(* Properties of the condition compiler                                    *)
(***************************************************************************)
Compiled == pc = "done"

Count(statement, token) == Cardinality({i \in 1..Len(statement) : statement[i] = token})

\* the statement with every token this compilation minted replaced by a mark
Unnamed(r) ==
    [i \in 1..Len(r.statement) |->
        IF r.statement[i] \in {safeId(j) : j \in 1..r.n} THEN "$" ELSE r.statement[i]]

IsOneField(q) == q.statement = <<>> /\ ~q.hasOr /\ ~q.hasAnd /\ Len(q.fields) = 1
IsRaw(q) == q.statement # <<>>
IsGroup(q) == ~IsRaw(q) /\ (q.hasOr \/ q.hasAnd)
GroupSubs(q) == IF q.hasOr THEN q.orSubs ELSE q.andSubs
GroupWord(q) == IF q.hasOr THEN "OR" ELSE "AND"

\* a filter whose every node is one $or group, one $and group, a field filter or raw SQL
RECURSIVE IsNested(_)
IsNested(q) ==
    \/ IsRaw(q)
    \/ ~q.hasOr /\ ~q.hasAnd
    \/ /\ q.hasOr # q.hasAnd
       /\ q.fields = <<>>
       /\ \A i \in 1..Len(GroupSubs(q)) : IsNested(GroupSubs(q)[i])

RECURSIVE Sum(_, _)
Sum(f, i) == IF i = 0 THEN 0 ELSE f[i] + Sum(f, i - 1)

\* the parameter names the raw SQL leaves of a filter bring: how many, and which
RECURSIVE RawNameCount(_)
RawNameCount(q) ==
    IF IsRaw(q) THEN Cardinality(DOMAIN q.params)
    ELSE IF IsGroup(q)
         THEN Sum([i \in 1..Len(GroupSubs(q)) |-> RawNameCount(GroupSubs(q)[i])],
                  Len(GroupSubs(q)))
    ELSE 0
RECURSIVE RawNames(_)
RawNames(q) ==
    IF IsRaw(q) THEN DOMAIN q.params
    ELSE IF IsGroup(q)
         THEN UNION {RawNames(GroupSubs(q)[i]) : i \in 1..Len(GroupSubs(q))}
    ELSE {}
RawNamesDiffer(q) == RawNameCount(q) = Cardinality(RawNames(q))

\* the $or / $and levels of a filter, and the parentheses its leaves bring themselves
RECURSIVE GroupLevels(_)
GroupLevels(q) ==
    IF IsGroup(q)
    THEN 1 + Sum([i \in 1..Len(GroupSubs(q)) |-> GroupLevels(GroupSubs(q)[i])],
                 Len(GroupSubs(q)))
    ELSE 0
RECURSIVE LeafParens(_, _)
LeafParens(q, cs) ==
    IF IsGroup(q)
    THEN Sum([i \in 1..Len(GroupSubs(q)) |-> LeafParens(GroupSubs(q)[i], cs)],
             Len(GroupSubs(q)))
    ELSE Count(_parseCond(q, cs, 0).statement, "(")

Branches(q, cs) == [i \in 1..Len(GroupSubs(q)) |-> _parseCond(GroupSubs(q)[i], cs, 0)]

GroupShape(q, cs, r) ==
    /\ Unnamed(r) = <<"(">>
                    \o Join([i \in 1..Len(GroupSubs(q)) |-> Unnamed(Branches(q, cs)[i])],
                            GroupWord(q))
                    \o <<")">>
    /\ Count(r.statement, "(") = GroupLevels(q) + LeafParens(q, cs)
    /\ Count(r.statement, ")") = Count(r.statement, "(")

BranchParamCount(q, cs) ==
    Sum([i \in 1..Len(GroupSubs(q)) |-> Cardinality(DOMAIN Branches(q, cs)[i].params)],
        Len(GroupSubs(q)))

\* C1 as stated: a group of nested $or/$and compiles to the parenthesized OR / AND
\* join of its separately compiled branches, one group per level, and its parameter
\* map has as many entries as the branches' maps have together.
C1_GroupsAndParamCount ==
    (Compiled /\ IsGroup(cond) /\ IsNested(cond)) =>
        /\ GroupShape(cond, cols, sql)
        /\ Cardinality(DOMAIN sql.params) = BranchParamCount(cond, cols)

\* C1, amended: the same, for the filters whose raw SQL leaves bring pairwise
\* different parameter names (the names the compiler mints never collide; names
\* the caller wrote in two raw $params do).
C1_GroupsAndMintedParamCount ==
    (Compiled /\ IsGroup(cond) /\ IsNested(cond)) =>
        /\ GroupShape(cond, cols, sql)
        /\ RawNamesDiffer(cond) =>
               Cardinality(DOMAIN sql.params) = BranchParamCount(cond, cols)
        /\ Cardinality(DOMAIN sql.params) <= BranchParamCount(cond, cols)

C1_Witness ==
    /\ Compiled
    /\ cond.hasOr /\ Len(cond.orSubs) = 2
    /\ cond.orSubs[1].hasAnd /\ Len(cond.orSubs[1].andSubs) = 2
    /\ RawNamesDiffer(cond)
    /\ Cardinality(DOMAIN Branches(cond, cols)[1].params) = 4
    /\ Cardinality(DOMAIN Branches(cond, cols)[2].params) = 1
    /\ Cardinality(DOMAIN sql.params) = 5

TheKey == cond.fields[1].k
TheValue == cond.fields[1].v
TheColumn == ColumnRef(TheKey)

RecognizedOps == BindingOps \cup {"$in", "$nin", "$exists"}

\* an operator object that is not exactly one recognized operator with a well-shaped
\* operand
IsMalformed(v) ==
    /\ v.kind = "object"
    /\ \/ Len(v.ops) # 1
       \/ v.ops[1].op \notin RecognizedOps
       \/ v.ops[1].op \in {"$in", "$nin"} /\ v.ops[1].arg.kind # "array"

\* C2 as stated: compiling a field whose value is a malformed operator object ends
\* in a MalformedFilter error, with no statement and no parameters.
C2_MalformedFilterRaised ==
    (Compiled /\ IsOneField(cond) /\ IsMalformed(TheValue)) =>
        thrown = "MalformedFilter" /\ sql.statement = <<>> /\ DOMAIN sql.params = {}

\* key names a string-set column of one of the tables taking part, bare or as
\* table__column
IsStringSet(key, cs) ==
    \E c \in SeqRange(cs) : \E p \in SeqRange(c.prop) :
        /\ p.type = "StringArray"
        /\ key \in {<<p.k>>, <<c.name \o "__" \o p.k>>}

\* C3: { k: v } with a plain scalar v, falsy ones included, binds one parameter,
\* whose value is v, in a substring match between separators when k is a string-set
\* column of a table taking part and in an equality test when it is not.
C3_ScalarField ==
    (Compiled /\ IsOneField(cond) /\ TheValue.kind = "scalar") =>
        \E id \in DOMAIN sql.params :
            /\ DOMAIN sql.params = {id}
            /\ sql.params[id] = TheValue
            /\ sql.statement =
                   IF IsStringSet(TheKey, cols)
                   THEN <<"(", TheColumn, "LIKE", "'%\\x1f'", "||", id, "||", "'\\x1f%'", ")">>
                   ELSE <<"(", TheColumn, "=", id, ")">>

C3_Witness ==
    /\ Compiled /\ IsOneField(cond)
    /\ TheValue = Sc("0") /\ TheKey = <<"labels">> /\ cols = <<Post, User>>
    /\ Count(sql.statement, "LIKE") = 1
    /\ Cardinality(DOMAIN sql.params) = 1

IsSequenceOf2(v) == v.kind = "array" /\ Len(v.items) >= 2

\* the parameters are len(v) differently named ones, the i-th holding v's i-th
\* element, and the statement is `shape` of their names
BindsEach(items, shape(_)) ==
    /\ Cardinality(DOMAIN sql.params) = Len(items)
    /\ \E name \in [1..Len(items) -> DOMAIN sql.params] :
           /\ \A i \in 1..Len(items) : sql.params[name[i]] = items[i]
           /\ sql.statement = shape(name)

MembershipOf(name) ==
    <<"(", TheColumn, "IN", "(">>
    \o Join([i \in 1..Len(name) |-> <<name[i]>>], ",") \o <<")", ")">>
EveryMemberOf(name) ==
    <<"(", "(">>
    \o Join([i \in 1..Len(name) |-> LikeMember(TheColumn, name[i])], "AND") \o <<")", ")">>

\* C4 as stated: a sequence of 2 or more elements as the value of any field compiles
\* to k IN (...) with len(v) differently named parameters, one per element.
C4_SequenceIsMembership ==
    (Compiled /\ IsOneField(cond) /\ IsSequenceOf2(TheValue)) =>
        BindsEach(TheValue.items, MembershipOf)

\* C4, amended: that holds of a field that is no string-set column; for a string-set
\* column the predicate is the AND of one substring match per element. Either way
\* len(v) differently named parameters are bound, one per element.
C4_SequenceByColumnType ==
    (Compiled /\ IsOneField(cond) /\ IsSequenceOf2(TheValue)) =>
        IF IsStringSet(TheKey, cols)
        THEN BindsEach(TheValue.items, EveryMemberOf)
        ELSE BindsEach(TheValue.items, MembershipOf)

C4_Witness ==
    /\ Compiled /\ IsOneField(cond)
    /\ TheKey = <<"title">> /\ TheValue = Arr(<<Sc("5"), Sc("5")>>)
    /\ Count(sql.statement, "IN") = 1
    /\ Cardinality(DOMAIN sql.params) = 2

IsEmptySequence(v) == v.kind = "array" /\ v.items = <<>>

\* C5 as stated: an empty sequence compiles like a null scalar on the same field:
\* the null scalar's statement, and one parameter bound.
C5_EmptySequenceAsNull ==
    (Compiled /\ IsOneField(cond) /\ IsEmptySequence(TheValue)) =>
        /\ Unnamed(sql) = Unnamed(_parseCond(Fields(<<Field(TheKey, Null)>>), cols, 0))
        /\ Cardinality(DOMAIN sql.params) = 1

\* C5, amended: an empty sequence binds no parameter and compiles to no test on the
\* field: nothing is pushed for a column that is no string-set (the filter of that
\* one field is TRUE) and an empty group for a string-set column; a null scalar on
\* the same field binds one parameter.
C5_EmptySequenceNoTest ==
    (Compiled /\ IsOneField(cond) /\ IsEmptySequence(TheValue)) =>
        /\ DOMAIN sql.params = {}
        /\ sql.statement = IF IsStringSet(TheKey, cols)
                           THEN <<"(", "(", ")", ")">>
                           ELSE <<"(", "TRUE", ")">>
        /\ Cardinality(DOMAIN _parseCond(Fields(<<Field(TheKey, Null)>>), cols, 0).params) = 1

C5_Witness ==
    /\ Compiled /\ IsOneField(cond)
    /\ TheKey = <<"title">> /\ IsEmptySequence(TheValue)
    /\ sql.statement = <<"(", "TRUE", ")">>
    /\ sql.n = 1

Comparisons == {"$gt", "$gte", "$lt", "$lte", "$ne"}

\* the date that is the field's value or the operand of its comparison operator
DateOperand(v) ==
    IF v.kind = "date" THEN {v}
    ELSE IF v.kind = "object" /\ Len(v.ops) = 1 /\ v.ops[1].op \in Comparisons
              /\ v.ops[1].arg.kind = "date"
         THEN {v.ops[1].arg}
    ELSE {}

\* C6 as stated: a date operand is bound as its epoch milliseconds, and the column
\* of the predicate is the extraction of the column's millisecond sub-field.
C6_DateOperandRewritten ==
    (Compiled /\ IsOneField(cond)) =>
        \A d \in DateOperand(TheValue) :
            /\ \E id \in DOMAIN sql.params :
                   DOMAIN sql.params = {id} /\ sql.params[id] = Sc(d.s)
            /\ sql.statement[2] = MilliOf(TheColumn)

(***************************************************************************)
(* The transforms applied to a value: set on the way in, get on the way out *)
(***************************************************************************)
Chars == {"a", "b"}
Members == {Str(chars) : chars \in UNION {[1..len -> Chars] : len \in 0..2}}
StringSets == {Arr(items) : items \in UNION {[1..len -> Members] : len \in 0..MaxLen}}

JSONValues ==
    {Sc(l) : l \in {"0", "5", "false", "true", "''", "'x'", "null"}}
    \cup {Arr(<<>>), Arr(<<Sc("0")>>), Arr(<<Sc("5"), Sc("'x'")>>),
          Obj(<<>>), Obj(<<Op("a", Sc("0"))>>)}

LogicalValues(t) ==
    CASE t = "Date" -> {Dt(ms) : ms \in NumberLits}
      [] t = "JSON" -> JSONValues
      [] t = "StringArray" -> StringSets
      [] t = "Boolean" -> {Sc("true"), Sc("false")}

InitTransform ==
    /\ pc = "data"
    /\ propType \in TransformTypes
    /\ data \in LogicalValues(propType)
    /\ repr = Undefined /\ loaded = Undefined
    /\ cond = Fields(<<>>) /\ cols = <<Post>> /\ sql = NoSql /\ thrown = "none"
    /\ IdleCollection(Post)

\* v = tr.set(v), as create, update and transformEntry do for a typed field
SetValue ==
    /\ pc = "data"
    /\ repr' = TransformSet(propType, data)
    /\ pc' = "stored"
    /\ UNCHANGED <<propType, data, loaded, cvars, ovars>>

\* data[k] = tr.get(v), as _loadData and transformRow do for a typed column
GetValue ==
    /\ pc = "stored"
    /\ loaded' = TransformGet(propType, repr)
    /\ pc' = "loaded"
    /\ UNCHANGED <<propType, data, repr, cvars, ovars>>

NextTransform == SetValue \/ GetValue

SpecTransform == InitTransform /\ [][NextTransform]_vars

\* C7 as stated: for each extended type and each logical value of it, get(set(x))
\* is x (a timestamp compared by its epoch milliseconds).
C7_RoundTrip ==
    pc = "loaded" =>
        IF propType = "Date" THEN loaded.kind = "date" /\ loaded.s = data.s
        ELSE loaded = data

(***************************************************************************)
(* Collection: init, create, update                                        *)
(***************************************************************************)
MapSeq(seq, f(_)) == [i \in 1..Len(seq) |-> f(seq[i])]

\* entry[k], and entry[k] = v, on an object given by its entries
Has(entries, k) == \E i \in 1..Len(entries) : entries[i].k = k
Lookup(entries, k) ==
    IF Has(entries, k) THEN entries[CHOOSE i \in 1..Len(entries) : entries[i].k = k].v
    ELSE Undefined
Assign(entries, k, v) ==
    IF Has(entries, k)
    THEN [i \in 1..Len(entries) |-> IF entries[i].k = k THEN Field(k, v) ELSE entries[i]]
    ELSE Append(entries, Field(k, v))
KeysOf(entries) == {entries[i].k : i \in 1..Len(entries)}

\* (this.__meta.prop as any)[k], "" for its type when there is none
HasProp(c, k) == \E i \in 1..Len(c.prop) : c.prop[i].k = k
PropType(c, k) ==
    IF HasProp(c, k) THEN c.prop[CHOOSE i \in 1..Len(c.prop) : c.prop[i].k = k].type ELSE ""

\* tr ? tr.set(v) : v
Encode(c, k, v) == IF PropType(c, k) \in TransformTypes THEN TransformSet(PropType(c, k), v) ELSE v

AliasToSqliteType(t) ==
    CASE t \in {"int", "Date", "Boolean"} -> "INTEGER"
      [] t = "float" -> "FLOAT"
      [] OTHER -> "TEXT"

\* getDefault(k, v): the DEFAULT clause of a literal default, nothing for a computed one
DefaultClause(default) == IF default = "literal" THEN <<"DEFAULT", "literal">> ELSE <<>>

\* the this.on('pre-create', ...) calls of getDefault: for the primary key, then for
\* each prop with a type, when its default is a function
DefaultListeners(c) ==
    LET typed == <<[k |-> c.primary.name, type |-> c.primary.type,
                    default |-> c.primary.default]>>
                 \o MapSeq(c.prop, LAMBDA v : [k |-> v.k, type |-> v.type, default |-> v.default])
    IN  MapSeq(SelectSeq(typed, LAMBDA v : v.type # "" /\ v.default = "function"),
               LAMBDA v : [event |-> "pre-create", k |-> v.k, fn |-> "function"])

Statement(statement, params) == [statement |-> statement, params |-> params]

\* CREATE TABLE IF NOT EXISTS name (col, ...): the primary key, then each prop with a
\* type, as its name, its type and its DEFAULT clause (UNIQUE, NOT NULL, REFERENCES
\* and AUTOINCREMENT are words of the same column definition and are left out)
CreateTable(c) ==
    LET primary == IF c.primary.type # ""
                   THEN << <<safeColumnName(c.primary.name),
                             AliasToSqliteType(c.primary.type), "PRIMARY KEY">>
                           \o DefaultClause(c.primary.default) >>
                   ELSE <<>>
        defs == primary
                \o MapSeq(SelectSeq(c.prop, LAMBDA v : v.type # ""),
                          LAMBDA v : <<safeColumnName(v.k), AliasToSqliteType(v.type)>>
                                     \o DefaultClause(v.default))
    IN  Statement(<<"CREATE TABLE IF NOT EXISTS", safeColumnName(c.name), "(">>
                  \o Join(defs, ",") \o <<")">>,
                  NoParams)

\* one CREATE INDEX IF NOT EXISTS k__idx ON name (k) per prop with an index
NoIndexStatements(c) == <<>>
IndexStatements(c) ==
    MapSeq(SelectSeq(c.prop, LAMBDA v : v.index),
           LAMBDA v : Statement(<<"CREATE INDEX IF NOT EXISTS", v.k \o "__idx", "ON",
                                  safeColumnName(c.name), "(", safeColumnName(v.k), ")">>,
                                NoParams))

\* the engine running a CREATE ... IF NOT EXISTS of the object the statement names
ExecCreate(objs, ddl) ==
    IF ddl.statement[2] \in SeqRange(objs) THEN objs ELSE Append(objs, ddl.statement[2])

Call(name, build, postfix) == [name |-> name, build |-> build, postfix |-> postfix]

Idle == pc = "idle"

\* this.sql is set by init: before the first init it is undefined, and
\* this.sql.run / this.sql.all is a TypeError
Connected == inits > 0

\* await this.sql.run(statement, params) / this.sql.all(...) of a call that has
\* issued `before`: the engine gets the statement and the call returns `returned`
\* for the rows `answer` it gave
Run(before, statement, answer, returned) ==
    IF Connected
    THEN issued' = Append(before, statement) /\ rows' = answer /\ result' = returned
         /\ thrown' = "none"
    ELSE issued' = before /\ rows' = <<>> /\ result' = <<>> /\ thrown' = "TypeError"

\* a call begins: its arguments and its own locals, nothing left of the call before
Begin(name, build, postfix, e, c) ==
    /\ call' = Call(name, build, postfix)
    /\ entry' = e
    /\ cond' = c
    /\ started' = 0 /\ running' = {} /\ calls' = <<>>

\* the call has neither compiled a filter nor run a statement yet
Pending ==
    /\ cols' = <<>> /\ sql' = NoSql
    /\ issued' = <<>> /\ rows' = <<>> /\ result' = <<>> /\ thrown' = "none"

\* init(db, build): this.sql = db.sql; return at once when build is false; otherwise
\* the column definitions (getDefault adds the listeners) up to the first await
InitCall(build) ==
    /\ Idle
    /\ inits < MaxInits
    /\ inits' = inits + 1
    /\ Begin("init", build, <<>>, <<>>, Fields(<<>>))
    /\ Pending
    /\ listeners' = IF build THEN listeners \o DefaultListeners(col) ELSE listeners
    /\ pc' = IF build THEN "build-sql" ELSE "idle"
    /\ UNCHANGED <<col, objects, chain, tvars>>

\* await this.sql.exec(CREATE TABLE ...)
ExecCreateTable ==
    /\ pc = "build-sql"
    /\ issued' = Append(issued, CreateTable(col))
    /\ objects' = ExecCreate(objects, CreateTable(col))
    /\ pc' = "build-index"
    /\ UNCHANGED <<col, listeners, call, entry, started, running, calls, inits, chain, rows,
                   result, cvars, tvars>>

\* await this.sql.exec(CREATE INDEX ...) of the next indexed prop
ExecCreateIndex ==
    /\ pc = "build-index"
    /\ Len(issued) - 1 < Len(IndexStatements(col))
    /\ LET ddl == IndexStatements(col)[Len(issued)]
       IN  /\ issued' = Append(issued, ddl)
           /\ objects' = ExecCreate(objects, ddl)
    /\ UNCHANGED <<pc, col, listeners, call, entry, started, running, calls, inits, chain,
                   rows, result, cvars, tvars>>

\* return this
InitReturn ==
    /\ pc = "build-index"
    /\ Len(issued) - 1 = Len(IndexStatements(col))
    /\ pc' = "idle"
    /\ UNCHANGED <<cvars, tvars, ovars>>

\* the listeners of the event being emitted, in the order they were added
Emitting == SelectSeq(listeners, LAMBDA l : l.event = pc)

\* what a default / onUpdate function returns: new Date() for a Date column
Returned(c, k) == IF k \in {"createdAt", "updatedAt"} THEN Dt("7") ELSE Sc("5")

Entries ==
    {<<>>,
     <<Field("title", Sc("'x'")), Field("createdAt", Dt("5"))>>,
     <<Field("_id", Sc("0")), Field("tags", Arr(<<Str(<<"a">>)>>))>>}

\* create(entry, options) up to `await this.emit('pre-create', ...)`
CreateCall(e, ignoreErrors) ==
    /\ Idle
    /\ Begin("create", FALSE, IF ignoreErrors THEN <<"ON CONFLICT DO NOTHING">> ELSE <<>>,
             e, Fields(<<>>))
    /\ Pending
    /\ pc' = "pre-create"
    /\ UNCHANGED <<col, listeners, objects, inits, chain, tvars>>

\* emit calls the next listener, which runs to its await:
\*   entry[k] = entry[k] || await v.default(entry)
\*   set[k] = set[k] || (typeof onUpdate === 'function' ? await onUpdate(set) : v)
CallListener ==
    /\ pc \in {"pre-create", "pre-update"}
    /\ started < Len(Emitting)
    /\ LET l == Emitting[started + 1]
       IN  IF Truthy(Lookup(entry, l.k))
           THEN /\ entry' = Assign(entry, l.k, Lookup(entry, l.k))
                /\ UNCHANGED <<running, calls>>
           ELSE IF l.fn = "function"
           THEN /\ calls' = Append(calls, [i |-> started + 1, k |-> l.k, saw |-> KeysOf(entry)])
                /\ running' = running \cup {started + 1}
                /\ UNCHANGED entry
           ELSE /\ entry' = Assign(entry, l.k, Obj(<<Op("onUpdate", Sc("'value'"))>>))
                /\ UNCHANGED <<running, calls>>
    /\ started' = started + 1
    /\ UNCHANGED <<pc, col, listeners, call, issued, objects, inits, chain, rows, result,
                   cvars, tvars>>

\* a listener waiting at its await resumes and assigns what the function returned
ResumeListener(i) ==
    /\ pc \in {"pre-create", "pre-update"}
    /\ started = Len(Emitting)
    /\ i \in running
    /\ entry' = Assign(entry, Emitting[i].k, Returned(col, Emitting[i].k))
    /\ running' = running \ {i}
    /\ UNCHANGED <<pc, col, listeners, call, started, calls, issued, objects, inits, chain,
                   rows, result, cvars, tvars>>

\* every listener returned: the emit's Promise.all resolves
Emitted == started = Len(Emitting) /\ running = {}

\* create after the emit: the INSERT of Object.entries(entry), and this.sql.run
Insert ==
    /\ pc = "pre-create"
    /\ Emitted
    /\ LET values == [x \in {safeId(i) : i \in 1..Len(entry)} |->
                         LET i == CHOOSE j \in 1..Len(entry) : safeId(j) = x
                         IN  Encode(col, entry[i].k, entry[i].v)]
           insert == Statement(<<"INSERT INTO", safeColumnName(col.name), "(">>
                               \o Join(MapSeq(entry, LAMBDA f : <<safeColumnName(f.k)>>), ",")
                               \o <<")", "VALUES", "(">>
                               \o Join([i \in 1..Len(entry) |-> <<safeId(i)>>], ",")
                               \o <<")">> \o call.postfix,
                               values)
       IN  Run(issued, insert, <<>>, <<>>)
    /\ pc' = "idle"
    /\ UNCHANGED <<col, listeners, call, entry, started, running, calls, objects, inits,
                   chain, cond, cols, sql, tvars>>

(***************************************************************************)
(* Collection: update, find, get, delete                                   *)
(***************************************************************************)
Conds ==
    {Fields(<<>>),
     Fields(<<Field(<<"title">>, Sc("'x'"))>>)}

Sets ==
    {<<Field("title", Sc("'y'"))>>,
     <<Field("updatedAt", Dt("5")), Field("other", Sc("5"))>>}

\* update(cond, set, options) up to `await this.emit('pre-update', ...)`
UpdateCall(c, set) ==
    /\ Idle
    /\ Begin("update", FALSE, <<>>, set, c)
    /\ Pending
    /\ pc' = "pre-update"
    /\ UNCHANGED <<col, listeners, objects, inits, chain, tvars>>

\* update after the emit: the WHERE of cond, the SET of the entries of set that are
\* props, and this.sql.run
Update ==
    /\ pc = "pre-update"
    /\ Emitted
    /\ sql' = _parseCond(cond, <<col>>, 0)
    /\ cols' = <<col>>
    /\ LET where == sql'
           props == SelectSeq(entry, LAMBDA f : HasProp(col, f.k))
           id(i) == safeId(where.n + i)
           setK == [i \in 1..Len(props) |-> <<safeColumnName(props[i].k \o " = " \o id(i))>>]
           setV == [x \in {id(i) : i \in 1..Len(props)} |->
                       LET i == CHOOSE j \in 1..Len(props) : id(j) = x
                       IN  Encode(col, props[i].k, props[i].v)]
           update == Statement(<<"UPDATE", safeColumnName(col.name), "SET">>
                               \o Join(setK, ",") \o <<"WHERE">> \o where.statement
                               \o call.postfix,
                               MergeParams(setV, where.params))
       IN  Run(issued, update, <<>>, <<>>)
    /\ pc' = "idle"
    /\ UNCHANGED <<col, listeners, call, entry, started, running, calls, objects, inits,
                   chain, cond, tvars>>

\* options.sort, options.limit, options.offset as postfix
Options(sort, limit, offset) == [sort |-> sort, limit |-> limit, offset |-> offset]
NoOptions == Options("", "0", "0")
Postfix(o) ==
    (IF o.sort # "" THEN <<"ORDER BY", safeColumnName(o.sort), "ASC">> ELSE <<>>)
    \o (IF Truthy(Sc(o.limit)) THEN <<"LIMIT", o.limit>> ELSE <<>>)
    \o (IF Truthy(Sc(o.offset)) THEN <<"OFFSET", o.offset>> ELSE <<>>)

\* _loadData(data): tr.get of every column that is a prop with a transform
Decode(c, k, v) == IF PropType(c, k) \in TransformTypes THEN TransformGet(PropType(c, k), v) ELSE v
_loadData(c, row) == MapSeq(row, LAMBDA f : Field(f.k, Decode(c, f.k, f.v)))

\* what the engine may answer a SELECT on the collection with
Answers ==
    {<<>>,
     << <<Field("title", Sc("'x'")), Field("tags", Str(<<Separator, "a", Separator>>)),
          Field("createdAt", Sc("7")), Field("COUNT(_id)", Sc("5"))>> >>}

\* the SELECT of find: fields is an array of names (empty or null: every column)
Select(c, where, fields, o) ==
    LET selectClause == IF fields # <<>>
                        THEN MapSeq(fields, LAMBDA f : <<safeColumnName(f), "AS",
                                                         safeColumnName(f)>>)
                        ELSE << <<"*">> >>
    IN  Statement(<<"SELECT">> \o Join(selectClause, ",") \o <<"FROM", c.name, "WHERE">>
                  \o where.statement \o Postfix(o),
                  where.params)

FieldLists == {<<>>, <<"title", "tags">>}

\* find(cond, fields, options)
Find(c, fields, o) ==
    /\ Idle
    /\ Begin("find", FALSE, Postfix(o), <<>>, c)
    /\ cols' = <<col>> /\ sql' = _parseCond(c, <<col>>, 0)
    /\ \E answer \in Answers :
           Run(<<>>, Select(col, sql', fields, o), answer,
               MapSeq(answer, LAMBDA r : _loadData(col, r)))
    /\ UNCHANGED <<pc, col, listeners, objects, inits, chain, tvars>>

\* get(cond, fields): find with { limit: 1 }, then [0] || null (no row: nothing)
Get(c, fields) ==
    /\ Idle
    /\ Begin("get", FALSE, Postfix(Options("", "1", "0")), <<>>, c)
    /\ cols' = <<col>> /\ sql' = _parseCond(c, <<col>>, 0)
    /\ \E answer \in Answers :
           Run(<<>>, Select(col, sql', fields, Options("", "1", "0")), answer,
               IF answer = <<>> THEN <<>> ELSE <<_loadData(col, answer[1])>>)
    /\ UNCHANGED <<pc, col, listeners, objects, inits, chain, tvars>>

\* delete(cond, options)
Delete(c) ==
    /\ Idle
    /\ Begin("delete", FALSE, <<>>, <<>>, c)
    /\ cols' = <<col>> /\ sql' = _parseCond(c, <<col>>, 0)
    /\ Run(<<>>,
           Statement(<<"DELETE FROM", safeColumnName(col.name), "WHERE">> \o sql'.statement,
                     sql'.params),
           <<>>, <<>>)
    /\ UNCHANGED <<pc, col, listeners, objects, inits, chain, tvars>>

(***************************************************************************)
(* Chain                                                                   *)
(***************************************************************************)

\* this.select[k] = v for each projected column l of the table
Project(select, name, ls) ==
    IF ls = <<>> THEN select
    ELSE LET merged[i \in 0..Len(ls)] ==
                 IF i = 0 THEN select
                 ELSE Assign(merged[i - 1], safeColumnName(name \o "." \o ls[i]),
                             safeColumnName(name \o "__" \o ls[i]))
         IN  merged[Len(ls)]

\* this.cols[name] = c: a record keyed by the table's name
WithCol(cs, c) ==
    IF \E i \in 1..Len(cs) : cs[i].name = c.name
    THEN [i \in 1..Len(cs) |-> IF cs[i].name = c.name THEN c ELSE cs[i]]
    ELSE Append(cs, c)

Projections == {<<>>, <<"title">>}

\* chain(select): new Chain(this, select)
NewChain(firstSelect) ==
    /\ Idle
    /\ chain' = [cols |-> <<col>>,
                 select |-> Project(<<>>, col.name, firstSelect),
                 from |-> << <<"FROM", safeColumnName(col.name)>> >>]
    /\ Begin("chain", FALSE, <<>>, <<>>, Fields(<<>>))
    /\ Pending
    /\ UNCHANGED <<pc, col, listeners, objects, inits, tvars>>

JoinSelects == {<<>>, <<"email">>}

\* join(to, foreignField, localField, select, type) with User
JoinUser(foreignField, select) ==
    /\ Idle
    /\ chain # NoChain
    /\ Len(chain.from) < 1 + 2 * MaxJoins
    /\ chain' = [cols |-> WithCol(chain.cols, User),
                 select |-> Project(chain.select, User.name, select),
                 from |-> chain.from
                          \o << <<"JOIN", safeColumnName(User.name)>>,
                                <<"ON", safeColumnName(foreignField), "=",
                                  safeColumnName(User.name) \o "._id">> >>]
    /\ Begin("join", FALSE, <<>>, <<>>, Fields(<<>>))
    /\ Pending
    /\ UNCHANGED <<pc, col, listeners, objects, inits, tvars>>

\* transformRow(row): every output key split at '__' into table and column, decoded
\* by the table's transform; the value is { threw, item }
HasTable(cs, name) == \E i \in 1..Len(cs) : cs[i].name = name
Table(cs, name) == cs[CHOOSE i \in 1..Len(cs) : cs[i].name = name]
ColumnOf(key) == IF Len(key) >= 2 THEN key[2] ELSE "undefined"

transformRow(cs, row) ==
    LET item[i \in 0..Len(row)] ==
            IF i = 0 THEN [threw |-> FALSE, item |-> <<>>]
            ELSE LET before == item[i - 1]
                     tableName == row[i].k[1]
                     r == ColumnOf(row[i].k)
                 IN  IF before.threw \/ ~HasTable(cs, tableName)
                     THEN [threw |-> TRUE, item |-> before.item]
                     ELSE LET c == Table(cs, tableName)
                              at == <<tableName, r>>
                              decoded == IF PropType(c, r) \in TransformTypes
                                         THEN Assign(before.item, at,
                                                     TransformGet(PropType(c, r), row[i].v))
                                         ELSE before.item
                          IN  [threw |-> FALSE,
                               item |-> IF Lookup(decoded, at) = Undefined
                                        THEN Assign(decoded, at, row[i].v)
                                        ELSE decoded]
    IN  item[Len(row)]

\* what the engine may answer the SELECT of a join with
JoinAnswers ==
    {<<>>,
     << <<Field(<<"post", "title">>, Sc("'x'")),
          Field(<<"post", "tags">>, Str(<<Separator, "a", Separator>>)),
          Field(<<"user", "email">>, Sc("'x'"))>> >>,
     << <<Field(<<"total">>, Sc("5"))>> >>}

RECURSIVE Flatten(_)
Flatten(seqs) == IF seqs = <<>> THEN <<>> ELSE seqs[1] \o Flatten(Tail(seqs))

\* data(cond, options)
Data(c) ==
    /\ Idle
    /\ chain # NoChain
    /\ Begin("data", FALSE, <<>>, <<>>, c)
    /\ cols' = chain.cols /\ sql' = _parseCond(c, chain.cols, 0)
    /\ LET where == sql'
           select == Statement(
                         <<"SELECT">>
                         \o Join(MapSeq(chain.select,
                                        LAMBDA a : <<safeColumnName(a.k), "AS",
                                                     safeColumnName(a.v)>>), ",")
                         \o Flatten(chain.from) \o <<"WHERE">> \o where.statement,
                         where.params)
       IN  \E answer \in JoinAnswers :
               LET items == MapSeq(answer, LAMBDA r : transformRow(chain.cols, r))
               IN  IF Connected /\ \E i \in 1..Len(items) : items[i].threw
                   THEN /\ issued' = <<select>> /\ rows' = answer /\ result' = <<>>
                        /\ thrown' = "TypeError"
                   ELSE Run(<<>>, select, answer, MapSeq(items, LAMBDA t : t.item))
    /\ UNCHANGED <<pc, col, listeners, objects, inits, chain, tvars>>

(***************************************************************************)
(* The operations called on a collection                                   *)
(***************************************************************************)
Models ==
    {Collection("post", Primary("_id", "string", "function"),
                <<Prop("title", "string", "none", FALSE, "none")>>, TRUE, FALSE),
     Collection("post", Primary("_id", "int", "none"),
                <<Prop("title", "string", "none", FALSE, "none"),
                  Prop("tags", "StringArray", "none", TRUE, "none")>>, FALSE, TRUE),
     Collection("post", Primary("_id", "int", "none"),
                <<Prop("title", "string", "function", TRUE, "none"),
                  Prop("rank", "int", "literal", TRUE, "none"),
                  Prop("rev", "int", "none", FALSE, "function"),
                  Prop("note", "string", "none", FALSE, "value")>>, FALSE, FALSE)}

InitOps ==
    /\ pc = "idle"
    /\ \E c \in Models : IdleCollection(c)
    /\ cond = Fields(<<>>) /\ cols = <<>> /\ sql = NoSql /\ thrown = "none"
    /\ propType = "none" /\ data = Undefined /\ repr = Undefined /\ loaded = Undefined

NextOps ==
    \/ \E build \in BOOLEAN : InitCall(build)
    \/ ExecCreateTable
    \/ ExecCreateIndex
    \/ InitReturn
    \/ \E e \in Entries, ignoreErrors \in BOOLEAN : CreateCall(e, ignoreErrors)
    \/ CallListener
    \/ \E i \in running : ResumeListener(i)
    \/ Insert
    \/ \E c \in Conds, set \in Sets : UpdateCall(c, set)
    \/ Update
    \/ \E c \in Conds, fields \in FieldLists, o \in {NoOptions, Options("title", "5", "0")} :
           Find(c, fields, o)
    \/ \E c \in Conds, fields \in FieldLists : Get(c, fields)
    \/ \E c \in Conds : Delete(c)
    \/ \E firstSelect \in Projections : NewChain(firstSelect)
    \/ \E select \in JoinSelects : JoinUser("post.title", select)
    \/ \E c \in Conds : Data(c)

SpecOps == InitOps /\ [][NextOps]_vars

(***************************************************************************)
(* Properties of the operations                                            *)
(***************************************************************************)
\* the call named by `call` has returned or thrown
Done == pc = "idle" /\ call.name # "none"

\* the operations that run a statement
Operations == {"init", "create", "find", "get", "update", "delete", "data"}

\* the props of the schema that ask for an index
IndexedProps == {i \in 1..Len(col.prop) : col.prop[i].index}

\* C8 as stated: every public operation issues exactly one statement to the engine
\* per call, for every schema and for init with build disabled.
C8_OneStatementPerCall ==
    (Done /\ call.name \in Operations) => Len(issued) = 1

\* C8 amended: create, find, get, update, delete and Chain.data issue exactly one
\* statement per call once init has given the collection its connection (before
\* that the call fails with a TypeError and issues none); init issues none when
\* build is false, and otherwise the CREATE TABLE and one CREATE INDEX per indexed
\* prop, in that order.
C8_StatementsPerCall ==
    (Done /\ call.name \in Operations) =>
        IF call.name = "init"
        THEN /\ Len(issued) = IF call.build THEN 1 + Cardinality(IndexedProps) ELSE 0
             /\ call.build => issued[1].statement[1] = "CREATE TABLE IF NOT EXISTS"
             /\ \A i \in 2..Len(issued) :
                    issued[i].statement[1] = "CREATE INDEX IF NOT EXISTS"
        ELSE IF inits > 0
        THEN Len(issued) = 1
        ELSE issued = <<>> /\ thrown = "TypeError"

\* an init that built a schema with two indexed props has returned
C8_Witness ==
    /\ Done
    /\ call.name = "init" /\ call.build
    /\ Cardinality(IndexedProps) = 2
    /\ Len(issued) = 3

\* C9 as stated: in create and update the hooks run in registration order, each one
\* finishing before the next one starts, so that a hook sees the keys every hook
\* registered before it has assigned, and the statement is built after all of them.
C9_HooksOneAtATime ==
    /\ pc \in {"pre-create", "pre-update"} =>
           /\ running \subseteq {started}
           /\ \A c \in SeqRange(calls) :
                  \A j \in 1..(c.i - 1) : Emitting[j].k \in c.saw
    /\ (Done /\ call.name \in {"create", "update"}) => running = {}

\* C10 as stated: a second init raises no error, creates no schema object twice and
\* leaves the pre-create listeners as the first build left them, so that a create
\* calls each computed default at most once for a field.
C10_SecondInitNoEffect ==
    /\ call.name = "init" => thrown = "none"
    /\ Cardinality(SeqRange(objects)) = Len(objects)
    /\ SelectSeq(listeners, LAMBDA l : l.event = "pre-create") \in {<<>>, DefaultListeners(col)}
    /\ \A i, j \in 1..Len(calls) : i # j => calls[i].k # calls[j].k

\* the columns of the schema whose default is a function: the primary key and the
\* props with a type, createdAt and updatedAt among them
ComputedDefaults ==
    (IF col.primary.type # "" /\ col.primary.default = "function"
     THEN {col.primary.name} ELSE {})
    \cup {col.prop[i].k : i \in {j \in 1..Len(col.prop) :
                                     col.prop[j].type # "" /\ col.prop[j].default = "function"}}

\* C11 as stated: on a collection that has its connection, built or not, a create
\* that has run its INSERT has filled every field with a computed default (the
\* creation timestamp among them), and the INSERT names that column.
C11_ComputedDefaultsFilled ==
    (Done /\ call.name = "create" /\ inits > 0) =>
        /\ Len(issued) = 1
        /\ \A k \in ComputedDefaults :
               /\ k \in KeysOf(entry)
               /\ safeColumnName(k) \in SeqRange(issued[1].statement)

\* C12 as stated: the SELECT that data() issues has a select list that is not
\* empty, and for a chain without any projection it selects every column.
C12_SelectListNeverEmpty ==
    (Done /\ call.name = "data" /\ Len(issued) = 1) =>
        /\ issued[1].statement[1] = "SELECT"
        /\ issued[1].statement[2] # "FROM"
        /\ chain.select = <<>> => issued[1].statement[2] = "*"

\* where transformRow puts the value of an output key: item[tableName][r]
PlaceOf(key) == <<key[1], ColumnOf(key)>>

\* the output key names a table of the chain and a column of it with a transform
IsTypedColumn(key) ==
    /\ HasTable(chain.cols, key[1])
    /\ PropType(Table(chain.cols, key[1]), ColumnOf(key)) \in TransformTypes

\* C13 as stated: data() returns normally whatever keys the rows have, every key's
\* value is in the result under the key's first segment, and it is the raw value
\* when the first segment names no table of the chain or the second no typed column.
C13_EveryKeyPassedThrough ==
    (Done /\ call.name = "data" /\ inits > 0) =>
        /\ thrown = "none"
        /\ Len(result) = Len(rows)
        /\ \A i \in 1..Len(rows) : \A j \in 1..Len(rows[i]) :
               /\ Has(result[i], PlaceOf(rows[i][j].k))
               /\ ~IsTypedColumn(rows[i][j].k) =>
                      Lookup(result[i], PlaceOf(rows[i][j].k)) = rows[i][j].v

(***************************************************************************)
(* Every constraint of a filter in the compiled statement                  *)
(***************************************************************************)
\* part is a run of consecutive tokens of whole
Occurs(part, whole) ==
    \E i \in 1..(Len(whole) - Len(part) + 1) : SubSeq(whole, i, i + Len(part) - 1) = part

\* the columns the field entries of a filter constrain
ColumnsOf(q) == {ColumnRef(q.fields[i].k) : i \in 1..Len(q.fields)}

\* the compiled statement has a predicate on every column a sub-filter constrains
SubsIn(subs, r) ==
    \A i \in 1..Len(subs) : ColumnsOf(subs[i]) \subseteq SeqRange(r.statement)

\* C14 as stated: no constraint is discarded. The field entries beside $or / $and,
\* the sub-filters of $or and of $and when both are there, every operator of an
\* operator object and every element of a sequence that is not empty contribute a
\* predicate, or a bound parameter, to the compiled statement.
C14_NoConstraintDiscarded ==
    (Compiled /\ ~IsRaw(cond)) =>
        /\ (cond.hasOr \/ cond.hasAnd) => ColumnsOf(cond) \subseteq SeqRange(sql.statement)
        /\ cond.hasOr => SubsIn(cond.orSubs, sql)
        /\ cond.hasAnd => SubsIn(cond.andSubs, sql)
        /\ (IsOneField(cond) /\ TheValue.kind = "object") =>
               \A j \in 1..Len(TheValue.ops) :
                   TheValue.ops[j].op \in BindingOps =>
                       Occurs(OpClause(TheValue.ops[j].op, TheColumn, "$"), Unnamed(sql))
        /\ (IsOneField(cond) /\ TheValue.kind = "array" /\ TheValue.items # <<>>) =>
               Cardinality(DOMAIN sql.params) = Len(TheValue.items)

====
